---- MODULE Spec2Model ----
(***************************************************************************)
(* libaudio: the open/close life cycle of an AUFILE handle (audio.c), the  *)
(* streaming loops of the PCM routines and the sample conversions they     *)
(* apply (pcm.c).                                                          *)
(*                                                                         *)
(* Spec     : one caller, one AUINFO object, one handle slot: the caller   *)
(*            fills in the AUINFO, opens and closes.                       *)
(* IoSpec   : the typed calls on a handle au_open has returned; every      *)
(*            underlying read(2)/write(2) is one step, so that a loop that *)
(*            never ends is a behaviour of the model.                      *)
(***************************************************************************)
EXTENDS Integers, Sequences, FiniteSets, TLC

VARIABLES
    info,     \* the caller's AUINFO object
    file,     \* the AUFILE the caller holds (ptr = 0: it holds NULL)
    fds,      \* descriptors this process has open, besides 0, 1 and 2
    pc,       \* "idle", "read", "write" (inside a pcm_ routine), "exited"
    call,     \* the typed call in progress: the routine's locals
    ret,      \* what the last library call returned to the caller
    warned,   \* the last message given to warnx(), "" when none
    last,     \* the arguments and outcome of the last au_open
    avail,    \* bytes left between the read cursor and the end of the data
    hist,     \* per-handle history: calls made, sum of the write results
    cv        \* test-rw: the wave, the streams written and what was read back

vars == <<info, file, fds, pc, call, ret, warned, last, avail, hist, cv>>

----------------------------------------------------------------------------
\* audio.h

AU_FILETYPE_UNKNOWN == 0
AU_FILETYPE_RAW == 1
AU_FILETYPE_WAV == 2
NUMTYPES == 3

AU_READ == 0
AU_WRITE == 1

\* The encoding is one 32-bit word of four byte-wide fields.
AU_ENCTYPE_PCM == 16777216
AU_ENCODING_SIGNED == 65536
AU_ENCODING_UNSIGNED == 131072
AU_ENCODING_FLOAT == 196608
AU_ORDER_NONE == 0
AU_ORDER_LE == 256
AU_ORDER_BE == 512

\* encoding & AU_ENCTYPE_MASK (0xff000000)
EncType(e) == (e \div 16777216) * 16777216
\* encoding & AU_ENCODING_MASK (0x00ff0000)
Encoding(e) == ((e \div 65536) % 256) * 65536
\* encoding & AU_ORDER_MASK (0x0000ff00)
Order(e) == ((e \div 256) % 256) * 256
\* encoding & AU_BITSIZE_MASK (0x000000ff)
Bitsize(e) == e % 256

STDIN_FILENO == 0
STDOUT_FILENO == 1

Types == {"s8", "u8", "s16", "u16", "s32", "u32", "f32"}

Encodings ==
    {"s8", "u8", "s16le", "s16be", "u16le", "u16be",
     "s32le", "s32be", "u32le", "u32be", "f32le", "f32be"}

----------------------------------------------------------------------------
\* Bounds of the model

\* typed calls made on one handle
MaxCalls == 2
\* descriptors the process may hold before open(2) fails with EMFILE
MaxFds == 1
\* reads a routine is followed through after the data has ended
MaxEofReads == 2
\* transfers of one typed call that read(2)/write(2) may cut short
MaxShort == 1

----------------------------------------------------------------------------
\* pcm.c: the streaming loops

BUFSIZE == 32768

MIN(x, y) == IF x < y THEN x ELSE y

\* bytes of one on-disk sample of an encoding
DiskSize(disk) ==
    CASE disk \in {"s8", "u8"} -> 1
      [] disk \in {"s16le", "s16be", "u16le", "u16be"} -> 2
      [] OTHER -> 4

\* the routine table pcm_init would fill if every case bound the
\* little-endian routines
Routine_little_endian(dir, disk, mem) ==
    [dir |-> dir,
     disk |-> CASE disk = "s16be" -> "s16le" [] disk = "u16be" -> "u16le"
                [] disk = "s32be" -> "s32le" [] disk = "u32be" -> "u32le"
                [] disk = "f32be" -> "f32le" [] OTHER -> disk,
     mem |-> mem]

\* pcm_read_<disk>_as_<mem>, pcm_write_<mem>_as_<disk>
Routine(dir, disk, mem) == [dir |-> dir, disk |-> disk, mem |-> mem]

NoRoutine == [dir |-> "null", disk |-> "", mem |-> ""]

\* The routines that pass the caller's array straight to read(2)/write(2),
\* once, with no scratch buffer and no loop.
Unbuffered(r) ==
    \/ r.dir = "read"  /\ r.disk \in {"s8", "u8"} /\ r.mem \in {"s8", "u8"}
    \/ r.dir = "write" /\ r.disk = "s8" /\ r.mem = "s8"
    \/ r.dir = "write" /\ r.disk = "u8" /\ r.mem = "u8"

\* pcm_init's switch without its last label
CaseOf_lacking_f32be(encoding) ==
    LET k == encoding % 16777216 IN
    CASE k = AU_ENCODING_SIGNED + AU_ORDER_NONE + 8 -> "s8"
      [] k = AU_ENCODING_UNSIGNED + AU_ORDER_NONE + 8 -> "u8"
      [] k = AU_ENCODING_SIGNED + AU_ORDER_LE + 16 -> "s16le"
      [] k = AU_ENCODING_SIGNED + AU_ORDER_BE + 16 -> "s16be"
      [] k = AU_ENCODING_UNSIGNED + AU_ORDER_LE + 16 -> "u16le"
      [] k = AU_ENCODING_UNSIGNED + AU_ORDER_BE + 16 -> "u16be"
      [] k = AU_ENCODING_SIGNED + AU_ORDER_LE + 32 -> "s32le"
      [] k = AU_ENCODING_SIGNED + AU_ORDER_BE + 32 -> "s32be"
      [] k = AU_ENCODING_UNSIGNED + AU_ORDER_LE + 32 -> "u32le"
      [] k = AU_ENCODING_UNSIGNED + AU_ORDER_BE + 32 -> "u32be"
      [] k = AU_ENCODING_FLOAT + AU_ORDER_LE + 32 -> "f32le"
      [] OTHER -> "default"

\* The case label of pcm_init's switch an encoding word selects.
CaseOf(encoding) ==
    LET k == encoding % 16777216 IN
    CASE k = AU_ENCODING_SIGNED + AU_ORDER_NONE + 8 -> "s8"
      [] k = AU_ENCODING_UNSIGNED + AU_ORDER_NONE + 8 -> "u8"
      [] k = AU_ENCODING_SIGNED + AU_ORDER_LE + 16 -> "s16le"
      [] k = AU_ENCODING_SIGNED + AU_ORDER_BE + 16 -> "s16be"
      [] k = AU_ENCODING_UNSIGNED + AU_ORDER_LE + 16 -> "u16le"
      [] k = AU_ENCODING_UNSIGNED + AU_ORDER_BE + 16 -> "u16be"
      [] k = AU_ENCODING_SIGNED + AU_ORDER_LE + 32 -> "s32le"
      [] k = AU_ENCODING_SIGNED + AU_ORDER_BE + 32 -> "s32be"
      [] k = AU_ENCODING_UNSIGNED + AU_ORDER_LE + 32 -> "u32le"
      [] k = AU_ENCODING_UNSIGNED + AU_ORDER_BE + 32 -> "u32be"
      [] k = AU_ENCODING_FLOAT + AU_ORDER_LE + 32 -> "f32le"
      [] k = AU_ENCODING_FLOAT + AU_ORDER_BE + 32 -> "f32be"
      [] OTHER -> "default"

NoSlots == [t \in Types |-> NoRoutine]

\* pcm_init: rc and the fourteen slots of the handle after it.
pcm_init(mode, encoding) ==
    LET disk == CaseOf(encoding) IN
    IF EncType(encoding) # AU_ENCTYPE_PCM \/ disk = "default"
    THEN [rc |-> -1, au_read |-> NoSlots, au_write |-> NoSlots]
    ELSE [rc |-> 0,
          au_read |-> IF mode = AU_READ
                      THEN [t \in Types |-> Routine("read", disk, t)]
                      ELSE NoSlots,
          au_write |-> IF mode = AU_WRITE
                       THEN [t \in Types |-> Routine("write", disk, t)]
                       ELSE NoSlots]

----------------------------------------------------------------------------
\* audio.c: file types

\* A path is a sequence of characters.
PathStdio == <<"-">>
PathRaw == <<"a", ".", "r", "a", "w">>
PathWav == <<"a", ".", "W", "A", "V">>
PathOther == <<"a", ".", "r", "a", "w", "x">>
Paths == {<<>>, PathStdio, PathRaw, PathWav, PathOther}

ToLower(c) ==
    CASE c = "W" -> "w" [] c = "A" -> "a" [] c = "V" -> "v" [] c = "R" -> "r"
      [] OTHER -> c

\* the character at position i of a string, "" being its terminating NUL
CharAt(s, i) == IF i <= Len(s) THEN s[i] ELSE ""

\* strncasecmp(a, b, n) == 0
strncasecmp_eq(a, b, n) ==
    \A i \in 1..n : ToLower(CharAt(a, i)) = ToLower(CharAt(b, i))

\* filetypes[i].suff
filetypes(i) ==
    CASE i = AU_FILETYPE_RAW -> <<"r", "a", "w">>
      [] i = AU_FILETYPE_WAV -> <<"w", "a", "v">>
      [] OTHER -> <<>>

suff2type(suff) ==
    LET hits == {i \in 1..(NUMTYPES - 1) : strncasecmp_eq(suff, filetypes(i), 4)}
    IN  IF hits = {} THEN AU_FILETYPE_UNKNOWN
        ELSE CHOOSE i \in hits : \A j \in hits : i <= j

name2type(path) ==
    LET dots == {i \in 1..Len(path) : path[i] = "."} IN
    IF path = PathStdio THEN AU_FILETYPE_RAW
    ELSE IF dots = {} THEN AU_FILETYPE_UNKNOWN
    ELSE LET d == CHOOSE i \in dots : \A j \in dots : j <= i
         IN  suff2type(SubSeq(path, d + 1, Len(path)))

----------------------------------------------------------------------------
\* audio.c: au_open

NoFile ==
    [ptr |-> 0, fd |-> 0, mode |-> AU_READ, path |-> <<>>,
     au_read |-> NoSlots, au_write |-> NoSlots]

\* the attribute checks with the bitsize looked at before the encoding
MissingAttr_bitsize_first(i) ==
    IF i.srate = 0 THEN "no sample rate"
    ELSE IF EncType(i.encoding) = 0 THEN "no encoding type"
    ELSE IF Bitsize(i.encoding) = 0 THEN "no bitsize"
    ELSE IF Encoding(i.encoding) = 0 THEN "no encoding"
    ELSE IF Order(i.encoding) = 0 /\ Bitsize(i.encoding) > 8 THEN "no byteorder"
    ELSE IF i.channels = 0 THEN "no channels"
    ELSE ""

\* The first complaint of au_open's attribute checks, "" when it has none.
MissingAttr(i) ==
    IF i.srate = 0 THEN "no sample rate"
    ELSE IF EncType(i.encoding) = 0 THEN "no encoding type"
    ELSE IF Encoding(i.encoding) = 0 THEN "no encoding"
    ELSE IF Bitsize(i.encoding) = 0 THEN "no bitsize"
    ELSE IF Order(i.encoding) = 0 /\ Bitsize(i.encoding) > 8 THEN "no byteorder"
    ELSE IF i.channels = 0 THEN "no channels"
    ELSE ""

\* The lowest descriptor open(2) can hand out.
NewFd(f) == CHOOSE n \in 3..(3 + MaxFds) : n \notin f /\ \A m \in 3..(n - 1) : m \in f

\* What au_open(path, mode, &info) does with the AUINFO holding ai and the
\* process holding the descriptors held, open(2) answering openOk:
\* [ptr, file, info, fds, warned].
OpenResult(ai, held, path, mode, openOk) ==
    LET ft == IF ai.filetype = AU_FILETYPE_UNKNOWN
              THEN name2type(path) ELSE ai.filetype
        inf == [ai EXCEPT !.filetype = ft]
        checked == inf.filetype = AU_FILETYPE_RAW \/ mode = AU_WRITE
        stdio == path = PathStdio
        opened == stdio \/ openOk
        fd == IF stdio
              THEN (IF mode = AU_READ THEN STDIN_FILENO ELSE STDOUT_FILENO)
              ELSE NewFd(held)
        fds1 == IF stdio THEN held ELSE held \cup {fd}
        init == pcm_init(mode, inf.encoding)
        fail(i, f, w) ==
            [ptr |-> 0, file |-> NoFile, info |-> i, fds |-> f, warned |-> w]
    IN
    IF Len(path) = 0 THEN fail(ai, held, "")
    ELSE IF inf.filetype = AU_FILETYPE_UNKNOWN
    THEN fail(inf, held, "Filetype cannot be determined")
    ELSE IF checked /\ MissingAttr(inf) # ""
    THEN fail(inf, held, MissingAttr(inf))
    ELSE IF ~opened THEN fail(inf, held, "strerror")
    ELSE IF inf.filetype \notin {AU_FILETYPE_RAW, AU_FILETYPE_WAV}
    THEN fail(inf, fds1, "Unknown filetype")
    ELSE IF EncType(inf.encoding) # AU_ENCTYPE_PCM
    THEN fail(inf, fds1, "Unknown encoding type")
    ELSE IF init.rc # 0
    THEN fail(inf, fds1, "Could not init file as PCM")
    ELSE [ptr |-> 1,
          file |-> [ptr |-> 1, fd |-> fd, mode |-> mode, path |-> path,
                    au_read |-> init.au_read, au_write |-> init.au_write],
          info |-> inf, fds |-> fds1, warned |-> ""]

NoCall ==
    [routine |-> NoRoutine, len |-> 0, tot |-> 0, eofs |-> 0,
     nio |-> 0, shorts |-> 0, after |-> 0, ioerr |-> 0, req |-> 0,
     n |-> 0, stored |-> 0, bytes |-> 0, contig |-> TRUE]

NoLast ==
    [called |-> FALSE, path |-> <<>>, mode |-> AU_READ, openOk |-> FALSE,
     ptr |-> 0, close |-> "none"]

NoHist == [calls |-> 0, samples0 |-> 0, wsum |-> 0]

\* the lengths of the data a stream opened for reading may hold
Avails == {0, 1, 6, 4 * BUFSIZE + 4}

au_open(path, mode, openOk) ==
    /\ pc = "idle"
    /\ file.ptr = 0
    /\ (openOk => Cardinality(fds) < MaxFds)
    /\ LET r == OpenResult(info, fds, path, mode, openOk) IN
        /\ file' = r.file
        /\ info' = r.info
        /\ fds' = r.fds
        /\ warned' = r.warned
        /\ ret' = r.ptr
        /\ last' = [called |-> TRUE, path |-> path, mode |-> mode,
                    openOk |-> openOk, ptr |-> r.ptr, close |-> "none"]
        /\ hist' = [calls |-> 0, samples0 |-> r.info.samples, wsum |-> 0]
    /\ UNCHANGED <<pc, call, avail, cv>>

----------------------------------------------------------------------------
\* The caller fills in its AUINFO object, one field at a time, between opens.

FieldValues(f) ==
    CASE f = "filetype" -> {AU_FILETYPE_UNKNOWN, AU_FILETYPE_RAW, AU_FILETYPE_WAV}
      [] f = "srate" -> {0, 48000}
      [] f = "channels" -> {0, 1}
      [] OTHER -> {}

\* the values of the four fields of an encoding word the caller may set,
\* among them a 24-bit width and a signedness code audio.h does not define
EncTypes == {0, AU_ENCTYPE_PCM}
Signs == {0, AU_ENCODING_SIGNED, AU_ENCODING_UNSIGNED, AU_ENCODING_FLOAT, 262144}
Orders == {AU_ORDER_NONE, AU_ORDER_LE, AU_ORDER_BE}
Widths == {0, 8, 16, 24, 32}

SetField(f, v) ==
    /\ pc = "idle"
    /\ file.ptr = 0
    /\ info' = [info EXCEPT ![f] = v]
    /\ info' # info
    /\ last' = NoLast
    /\ warned' = ""
    /\ ret' = 0
    /\ hist' = NoHist
    /\ UNCHANGED <<file, fds, pc, call, avail, cv>>

SetEncoding(t, s, o, w) ==
    /\ \/ t = EncType(info.encoding) /\ s = Encoding(info.encoding)
          /\ o = Order(info.encoding)
       \/ t = EncType(info.encoding) /\ s = Encoding(info.encoding)
          /\ w = Bitsize(info.encoding)
       \/ t = EncType(info.encoding) /\ o = Order(info.encoding)
          /\ w = Bitsize(info.encoding)
       \/ s = Encoding(info.encoding) /\ o = Order(info.encoding)
          /\ w = Bitsize(info.encoding)
    /\ SetField("encoding", t + s + o + w)

\* au_open stores the caller's pointer (file->info = info): the AUINFO the
\* handle holds is the caller's object itself. The caller assigns another
\* encoding word to it while the handle is open, as testrw does between opens.
caller_sets_encoding(e) ==
    /\ pc = "idle"
    /\ file.ptr = 1
    /\ e # info.encoding
    /\ info' = [info EXCEPT !.encoding = e]
    /\ UNCHANGED <<file, fds, pc, call, ret, warned, last, avail, hist, cv>>

----------------------------------------------------------------------------
\* audio.c: au_close

au_close(closeOk) ==
    /\ pc = "idle"
    /\ IF file.ptr = 1 /\ file.fd # 0
       THEN /\ ret' = IF closeOk THEN 0 ELSE -1
            /\ fds' = fds \ {file.fd}
       ELSE /\ ret' = -1
            /\ fds' = fds
    /\ file' = NoFile
    /\ avail' = 0
    /\ last' = [NoLast EXCEPT
                  !.close = IF file.ptr = 0 THEN "no handle"
                            ELSE IF file.fd = 0 THEN "not called"
                            ELSE IF closeOk THEN "ok" ELSE "failed"]
    /\ UNCHANGED <<info, pc, call, warned, hist, cv>>

----------------------------------------------------------------------------
\* audio.c, pcm.c: the typed calls

\* the sample counts the caller asks for
Lens == {0, 2, BUFSIZE + 1}

\* What read(fd, buf, req) may return short of failing: 0 at the end of the
\* data, else any count up to what is there (a pipe may deliver less).
ReadOutcomes(req, size) ==
    LET most == MIN(req, avail) IN
    IF most = 0 THEN {0}
    ELSE IF call.shorts < MaxShort
    THEN {k \in {1, size, most} : k <= most}
    ELSE {most}

\* What write(fd, buf, req) may return short of failing.
WriteOutcomes(req, size) ==
    IF req = 0 THEN {0}
    ELSE IF call.shorts < MaxShort
    THEN {k \in {1, size, req} : k <= req}
    ELSE {req}

StartCall(r, n) ==
    [routine |-> r, len |-> n, tot |-> 0, eofs |-> 0, nio |-> 0,
     shorts |-> 0, after |-> 0, ioerr |-> 0, req |-> 0, n |-> n, stored |-> 0,
     bytes |-> 0, contig |-> TRUE]

\* au_read_T(file, samples, n) up to the routine's first read(2)
au_read(t, n) ==
    /\ pc = "idle"
    /\ file.ptr = 1
    /\ file.au_read[t] # NoRoutine
    /\ hist.calls < MaxCalls
    /\ hist' = [hist EXCEPT !.calls = @ + 1]
    /\ call' = StartCall(file.au_read[t], n)
    /\ IF n = 0 /\ ~Unbuffered(file.au_read[t])
       THEN pc' = "idle" /\ ret' = 0
       ELSE pc' = "read" /\ ret' = ret
    /\ UNCHANGED <<info, file, fds, warned, last, avail, cv>>

\* One read(2) of a pcm_read_ routine returning k >= 0, the conversion of
\* what it delivered and the loop's bookkeeping; the return when the loop ends.
\* The conversion loop runs for i = 0, size, 2 * size, ... while i < k and
\* stores one element of the caller's array each time.
read_chunk ==
    /\ pc = "read"
    /\ LET r == call.routine
           size == DiskSize(r.disk)
           buflen == MIN(call.len, BUFSIZE)
           req == IF Unbuffered(r) THEN call.len ELSE buflen * size
       IN \E k \in ReadOutcomes(req, size) :
          LET len1 == call.len - (k \div size)
              tot1 == call.tot + (k \div size)
          IN
        /\ k = 0 => call.eofs < MaxEofReads
        /\ avail' = avail - k
        /\ call' = [call EXCEPT !.len = len1, !.tot = tot1, !.req = req,
                                !.stored = @ + ((k + size - 1) \div size),
                                !.nio = MIN(@ + 1, 2),
                                !.shorts = IF 0 < k /\ k < req THEN @ + 1 ELSE @,
                                !.eofs = IF k = 0 /\ req > 0 THEN @ + 1 ELSE @]
        /\ IF Unbuffered(r) \/ len1 = 0
           THEN pc' = "idle" /\ ret' = IF Unbuffered(r) THEN k ELSE tot1
           ELSE pc' = "read" /\ ret' = ret
    /\ UNCHANGED <<info, file, fds, warned, last, hist, cv>>

\* an entry point that clears the slot it calls through
au_write_unbinding(t, n) ==
    /\ pc = "idle"
    /\ file.ptr = 1
    /\ file.au_write[t] # NoRoutine
    /\ hist.calls < MaxCalls
    /\ call' = StartCall(file.au_write[t], n)
    /\ file' = [file EXCEPT !.au_write[t] = NoRoutine]
    /\ pc' = "write"
    /\ hist' = [hist EXCEPT !.calls = @ + 1]
    /\ UNCHANGED <<info, fds, ret, warned, last, avail, cv>>

\* au_write_T(file, samples, n) up to the routine's first write(2)
au_write(t, n) ==
    /\ pc = "idle"
    /\ file.ptr = 1
    /\ file.au_write[t] # NoRoutine
    /\ hist.calls < MaxCalls
    /\ call' = StartCall(file.au_write[t], n)
    /\ IF n = 0 /\ ~Unbuffered(file.au_write[t])
       THEN /\ pc' = "idle"
            /\ ret' = 0
            /\ hist' = [hist EXCEPT !.calls = @ + 1]
       ELSE /\ pc' = "write"
            /\ ret' = ret
            /\ hist' = [hist EXCEPT !.calls = @ + 1]
    /\ UNCHANGED <<info, file, fds, warned, last, avail, cv>>

\* The entry point's own work once its routine has returned n:
\* au_write_s8 adds n to info->samples, the other six add nothing.
WrapperSamples(t, n) ==
    IF t = "s8" /\ n >= 0 THEN info.samples + n ELSE info.samples

\* One write(2) of a pcm_write_ routine accepting k >= 0 bytes, and the
\* loop's bookkeeping; the return through the entry point when the loop ends.
\* The chunk handed to write(2) is the encoding of the samples from
\* n - len on; the stream takes its first k bytes behind the call.bytes
\* bytes it took before.
write_chunk ==
    /\ pc = "write"
    /\ LET r == call.routine
           size == DiskSize(r.disk)
           buflen == MIN(call.len, BUFSIZE)
           req == IF Unbuffered(r) THEN call.len ELSE buflen * size
           len1 == IF Unbuffered(r) THEN 0 ELSE call.len - buflen
       IN \E k \in WriteOutcomes(req, size) :
          LET tot1 == call.tot + (k \div size) IN
        /\ call' = [call EXCEPT !.len = len1, !.tot = tot1, !.req = req,
                                !.bytes = @ + k,
                                !.contig = @ /\ (call.n - call.len) * size = call.bytes,
                                !.nio = MIN(@ + 1, 2),
                                !.shorts = IF k < req THEN @ + 1 ELSE @,
                                !.after = IF call.shorts > 0 THEN 1 ELSE @]
        /\ IF len1 = 0
           THEN /\ pc' = "idle"
                /\ ret' = tot1
                /\ info' = [info EXCEPT !.samples = WrapperSamples(r.mem, tot1)]
                /\ hist' = [hist EXCEPT !.wsum = @ + tot1]
           ELSE /\ pc' = "write"
                /\ UNCHANGED <<ret, info, hist>>
    /\ UNCHANGED <<file, fds, warned, last, avail, cv>>

\* read(2) or write(2) returns -1: the routine calls err(1, NULL), which
\* prints and exits the process; nothing is returned to the caller.
io_error ==
    /\ pc \in {"read", "write"}
    /\ pc' = "exited"
    /\ fds' = {}
    /\ call' = [call EXCEPT !.ioerr = 1]
    /\ UNCHANGED <<info, file, ret, warned, last, avail, hist, cv>>

----------------------------------------------------------------------------
\* pcm.c: the arithmetic of the sample conversions.
\*
\* C computes the conversions in int, float and double. Here a natural
\* number of any size is the sequence of its binary digits, least
\* significant first and without a leading zero, and a floating value is
\* a sign (1 for negative), such a natural m and a binary exponent e,
\* standing for m * 2^e: what C rounds to a double is rounded to 53 digits,
\* what it rounds to a float to 24, to nearest with ties to even.

Bit(a, i) == IF 1 <= i /\ i <= Len(a) THEN a[i] ELSE 0

\* the place of the highest digit 1 of a among the places lo..hi, or 0
RECURSIVE TopOne(_, _, _)
TopOne(a, lo, hi) ==
    IF lo > hi THEN 0
    ELSE IF lo = hi THEN (IF a[lo] = 1 THEN lo ELSE 0)
    ELSE LET mid == (lo + hi) \div 2
             h == TopOne(a, mid + 1, hi)
         IN  IF h # 0 THEN h ELSE TopOne(a, lo, mid)

\* a without its leading zeros
Norm(a) == SubSeq(a, 1, TopOne(a, 1, Len(a)))

RECURSIVE FromNat(_)
FromNat(n) == IF n = 0 THEN <<>> ELSE <<n % 2>> \o FromNat(n \div 2)

RECURSIVE ToNat(_)
ToNat(a) == IF a = <<>> THEN 0 ELSE a[1] + 2 * ToNat(Tail(a))

Zeros(k) == [i \in 1..k |-> 0]

Ones(k) == [i \in 1..k |-> 1]

\* a * 2^k
Shl(a, k) == IF a = <<>> THEN <<>> ELSE Zeros(k) \o a

\* a \div 2^k
Shr(a, k) == SubSeq(a, k + 1, Len(a))

\* the digits lo..hi of a + b + c and the carry out of them
RECURSIVE AddIn(_, _, _, _, _)
AddIn(a, b, lo, hi, c) ==
    IF lo > hi THEN [d |-> <<>>, c |-> c]
    ELSE IF lo = hi
    THEN LET s == Bit(a, lo) + Bit(b, lo) + c
         IN  [d |-> <<s % 2>>, c |-> s \div 2]
    ELSE LET mid == (lo + hi) \div 2
             l == AddIn(a, b, lo, mid, c)
             h == AddIn(a, b, mid + 1, hi, l.c)
         IN  [d |-> l.d \o h.d, c |-> h.c]

Add(a, b) ==
    LET n == IF Len(a) < Len(b) THEN Len(b) ELSE Len(a)
        s == AddIn(a, b, 1, n, 0)
    IN  IF s.c = 1 THEN s.d \o <<1>> ELSE s.d

\* the digits lo..hi of a - b - c and the borrow out of them
RECURSIVE SubIn(_, _, _, _, _)
SubIn(a, b, lo, hi, c) ==
    IF lo > hi THEN [d |-> <<>>, c |-> c]
    ELSE IF lo = hi
    THEN LET s == Bit(a, lo) - Bit(b, lo) - c
         IN  [d |-> <<s % 2>>, c |-> IF s < 0 THEN 1 ELSE 0]
    ELSE LET mid == (lo + hi) \div 2
             l == SubIn(a, b, lo, mid, c)
             h == SubIn(a, b, mid + 1, hi, l.c)
         IN  [d |-> l.d \o h.d, c |-> h.c]

\* a - b, for a >= b
Sub(a, b) == Norm(SubIn(a, b, 1, Len(a), 0).d)

\* a <= b on the digits lo..hi, for a and b of the same length
RECURSIVE LeqIn(_, _, _, _)
LeqIn(a, b, lo, hi) ==
    IF lo > hi THEN TRUE
    ELSE IF lo = hi THEN a[lo] <= b[lo]
    ELSE LET mid == (lo + hi) \div 2
         IN  IF SubSeq(a, mid + 1, hi) = SubSeq(b, mid + 1, hi)
             THEN LeqIn(a, b, lo, mid)
             ELSE LeqIn(a, b, mid + 1, hi)

Leq(a, b) ==
    IF Len(a) # Len(b) THEN Len(a) < Len(b) ELSE LeqIn(a, b, 1, Len(a))

\* a times the digits lo..hi of b
RECURSIVE MulIn(_, _, _, _)
MulIn(a, b, lo, hi) ==
    IF lo > hi THEN <<>>
    ELSE IF lo = hi THEN (IF b[lo] = 1 THEN a ELSE <<>>)
    ELSE LET mid == (lo + hi) \div 2
         IN  Add(MulIn(a, b, lo, mid), Shl(MulIn(a, b, mid + 1, hi), mid + 1 - lo))

Mul(a, b) == IF a = <<>> THEN <<>> ELSE MulIn(a, b, 1, Len(b))

\* long division by b: the digits hi..lo of a are brought down onto the
\* remainder r, the digits of the quotient found are put below q
RECURSIVE DivIn(_, _, _, _, _, _)
DivIn(a, b, lo, hi, q, r) ==
    IF lo > hi THEN [q |-> q, r |-> r]
    ELSE IF lo = hi
    THEN LET r1 == Norm(<<a[lo]>> \o r)
             ge == Leq(b, r1)
         IN  [q |-> <<IF ge THEN 1 ELSE 0>> \o q,
              r |-> IF ge THEN Sub(r1, b) ELSE r1]
    ELSE LET mid == (lo + hi) \div 2
             h == DivIn(a, b, mid + 1, hi, q, r)
         IN  IF h.r = <<>>
             THEN DivIn(a, b, lo, mid, h.q, <<>>)
             ELSE DivIn(a, b, lo, mid, h.q, h.r)

\* quotient and remainder of a by b # 0
DivMod(a, b) ==
    LET d == DivIn(a, b, 1, Len(a), <<>>, <<>>)
    IN  [q |-> Norm(d.q), r |-> d.r]

Fl(neg, m, e) == [neg |-> neg, m |-> m, e |-> e]

\* x > 0
Positive(x) == x.neg = 0 /\ x.m # <<>>

\* -x
Negate(x) == Fl(1 - x.neg, x.m, x.e)

\* x rounded to p binary digits
Round(x, p) ==
    LET n == Len(x.m)
        k == n - p
    IN  IF k <= 0 THEN x
        ELSE LET kept == SubSeq(x.m, k + 1, n)
                 up == /\ x.m[k] = 1
                       /\ (kept[1] = 1 \/ \E i \in 1..(k - 1) : x.m[i] = 1)
             IN  Fl(x.neg, IF up THEN Add(kept, <<1>>) ELSE kept, x.e + k)

\* x * y in a type of p digits
FMul(x, y, p) ==
    Round(Fl((x.neg + y.neg) % 2, Mul(x.m, y.m), x.e + y.e), p)

\* x / y in a type of p digits, y # 0: the quotient is taken to at least
\* p + 3 digits and a last digit tells whether anything is left over
FDiv(x, y, p) ==
    LET s == p + 2 + Len(y.m)
        d == DivMod(Shl(x.m, s), y.m)
        neg == (x.neg + y.neg) % 2
    IN  IF x.m = <<>> THEN Fl(neg, <<>>, 0)
        ELSE IF d.r = <<>> THEN Round(Fl(neg, d.q, x.e - y.e - s), p)
        ELSE Round(Fl(neg, <<1>> \o d.q, x.e - y.e - s - 1), p)

\* x + y in a type of p digits
FAdd(x, y, p) ==
    LET e == MIN(x.e, y.e)
        a == Shl(x.m, x.e - e)
        b == Shl(y.m, y.e - e)
    IN  IF x.neg = y.neg THEN Round(Fl(x.neg, Add(a, b), e), p)
        ELSE IF a = b THEN Fl(0, <<>>, 0)
        ELSE IF Leq(b, a) THEN Round(Fl(x.neg, Sub(a, b), e), p)
        ELSE Round(Fl(y.neg, Sub(b, a), e), p)

\* the integral part of |x|
Trunc(x) == IF x.e >= 0 THEN Shl(x.m, x.e) ELSE Shr(x.m, 0 - x.e)

\* the digits of a word: a word is the bytes of an integer of 1, 2 or 4
\* bytes, least significant byte first
ByteBits(b) == [i \in 1..8 |-> (b \div (2 ^ (i - 1))) % 2]

RECURSIVE WordBits(_)
WordBits(w) == IF w = <<>> THEN <<>> ELSE ByteBits(w[1]) \o WordBits(Tail(w))

\* the word of n bytes of a natural, taken modulo 2^(8n)
BitsWord(a, n) ==
    [k \in 1..n |-> ToNat([i \in 1..8 |-> Bit(a, 8 * (k - 1) + i)])]

\* the word of n bytes of -a in two's complement, modulo 2^(8n)
NegWord(a, n) ==
    LET low == Norm(SubSeq(a, 1, MIN(Len(a), 8 * n)))
    IN  IF low = <<>> THEN Zeros(n)
        ELSE BitsWord(Sub(Shl(<<1>>, 8 * n), low), n)

\* the value of a word read as an unsigned and as a signed integer
Unsigned(w) == Fl(0, Norm(WordBits(w)), 0)

Signed(w) ==
    IF w[Len(w)] >= 128
    THEN Fl(1, Sub(Shl(<<1>>, 8 * Len(w)), Norm(WordBits(w))), 0)
    ELSE Unsigned(w)

\* stdint.h: INTn_MAX, INTn_MIN, UINTn_MAX
INT_MAX(bits) == Fl(0, Ones(bits - 1), 0)

INT_MIN(bits) == Fl(1, <<1>>, bits - 1)

UINT_MAX(bits) == Fl(0, Ones(bits), 0)

\* the constants 1.0, -1.0 and 2.0
One == Fl(0, <<1>>, 0)

MinusOne == Fl(1, <<1>>, 0)

Two == Fl(0, <<1>>, 1)

\* ufloat: the value of the float whose storage holds the uint32_t word w
\* (finite values: exponent field below 255)
F32Value(w) ==
    LET sign == w[4] \div 128
        field == (w[4] % 128) * 2 + (w[3] \div 128)
        frac == (w[3] % 128) * 65536 + w[2] * 256 + w[1]
    IN  IF field = 0 THEN Fl(sign, FromNat(frac), -149)
        ELSE Fl(sign, FromNat(8388608 + frac), field - 150)

\* ufloat: the uint32_t word in the storage of the float of value x, for x
\* of at most 24 digits and zero or of magnitude 2^-126 or more
F32Word(x) ==
    IF x.m = <<>> THEN <<0, 0, 0, 128 * x.neg>>
    ELSE LET n == Len(x.m)
             field == x.e + n - 1 + 127
             m24 == IF n <= 24 THEN Shl(x.m, 24 - n) ELSE Shr(x.m, n - 24)
             frac == ToNat(m24) - 8388608
         IN  <<frac % 256, (frac \div 256) % 256,
               (frac \div 65536) + 128 * (field % 2),
               (field \div 2) + 128 * x.neg>>

----------------------------------------------------------------------------
\* pcm.c: the conversion of one sample by the routines pcm_init binds.
\*
\* An in-memory sample is the word of its value: of the integer itself for
\* an integer type, of the uint32_t sharing the float's storage for f32.

\* R16LE .. R32BE: the word of the integer read from the bytes p
R16LE(p) == <<p[1], p[2]>>

R16BE(p) == <<p[2], p[1]>>

R32LE(p) == <<p[1], p[2], p[3], p[4]>>

R32BE(p) == <<p[4], p[3], p[2], p[1]>>

\* W16LE .. W32BE: the bytes stored for the word s of _s
W16LE(s) == <<s[1], s[2]>>

\* a W16BE that stores the low byte first
W16BE_low_first(s) == <<s[1], s[2]>>

W16BE(s) == <<s[2], s[1]>>

W32LE(s) == <<s[1], s[2], s[3], s[4]>>

\* a W32BE that stores the low byte first
W32BE_low_first(s) == <<s[1], s[2], s[3], s[4]>>

W32BE(s) == <<s[4], s[3], s[2], s[1]>>

\* RFLE .. WFBE: a float goes through the uint32_t of ufloat
RFLE(p) == R32LE(p)

RFBE(p) == R32BE(p)

WFLE(s) == W32LE(s)

WFBE(s) == W32BE(s)

MemSign(t) ==
    IF t \in {"s8", "s16", "s32"} THEN "s" ELSE IF t = "f32" THEN "f" ELSE "u"

DiskSign(disk) ==
    IF disk \in {"s8", "s16le", "s16be", "s32le", "s32be"} THEN "s"
    ELSE IF disk \in {"f32le", "f32be"} THEN "f" ELSE "u"

\* a conversion between signed and unsigned that adds no bias
Bias_absent(w) == w

\* a bias added to the low byte of the sample
Bias_low_byte(w) == [w EXCEPT ![1] = (@ + 128) % 256]

\* + 0x80, + 0x8000, + 0x80000000 and the same with -, modulo the width
Bias(w) == [w EXCEPT ![Len(w)] = (@ + 128) % 256]

\* a narrowing that keeps the low-order bytes
Resize_low_kept(w, n) ==
    IF n >= Len(w) THEN Zeros(n - Len(w)) \o w ELSE SubSeq(w, 1, n)

\* a widening that fills the low-order bytes with ones
Resize_ones_filled(w, n) ==
    IF n >= Len(w) THEN [k \in 1..(n - Len(w)) |-> 255] \o w
    ELSE SubSeq(w, Len(w) - n + 1, Len(w))

\* a widening that keeps the value, as a cast does, instead of shifting it
Resize_value_kept(w, n) ==
    IF n >= Len(w)
    THEN w \o [k \in 1..(n - Len(w)) |-> IF w[Len(w)] >= 128 THEN 255 ELSE 0]
    ELSE SubSeq(w, Len(w) - n + 1, Len(w))

\* << 8, << 16, << 24 and >> 8, >> 16, >> 24, kept to n bytes
Resize(w, n) ==
    IF n >= Len(w) THEN Zeros(n - Len(w)) \o w
    ELSE SubSeq(w, Len(w) - n + 1, Len(w))

\* the double a signed integer sample is normalized to
NormSigned(w) ==
    LET v == Signed(w)
        bits == 8 * Len(w)
    IN  IF Positive(v) THEN FDiv(v, INT_MAX(bits), 53)
        ELSE FDiv(FMul(v, MinusOne, 53), INT_MIN(bits), 53)

\* a normalization of an unsigned sample that leaves out the factor 2.0
NormUnsigned_not_doubled(w) ==
    FAdd(MinusOne, FDiv(Unsigned(w), UINT_MAX(8 * Len(w)), 53), 53)

\* the double an unsigned integer sample is normalized to
NormUnsigned(w) ==
    FAdd(MinusOne,
         FDiv(FMul(Unsigned(w), Two, 53), UINT_MAX(8 * Len(w)), 53), 53)

\* the conversion of a double or an integer to float
ToFloat(x) == Round(x, 24)

\* the float of a signed 16-bit and of a signed 32-bit sample, as the read
\* routines compute them: the integer is made a float first, then divided
NormS16(w) ==
    LET x == ToFloat(Signed(w))
    IN  FDiv(x, IF Positive(x) THEN ToFloat(INT_MAX(16))
                ELSE ToFloat(Negate(INT_MIN(16))), 24)

NormS32(w) ==
    LET x == ToFloat(Signed(w))
    IN  ToFloat(FDiv(x, IF Positive(x) THEN INT_MAX(32)
                        ELSE FMul(MinusOne, INT_MIN(32), 53), 53))

\* the double a float f is scaled to for a signed and an unsigned encoding
DenormSigned(f, bits) ==
    IF Positive(f) THEN FMul(f, ToFloat(INT_MAX(bits)), 24)
    ELSE FMul(FMul(f, ToFloat(INT_MIN(bits)), 24), MinusOne, 53)

DenormUnsigned(f, bits) ==
    FMul(FDiv(FAdd(One, f, 53), Two, 53), UINT_MAX(bits), 53)

\* The conversion of a double whose integral part the destination type
\* cannot hold is undefined: a build either keeps the low bits of the
\* integral part or stops at the nearest value of the type.
Builds == {"wrap", "saturate"}

\* uint16_t _s = x, uint32_t _s = x
ToUnsigned(x, n, build) ==
    LET t == Trunc(x) IN
    IF x.neg = 1 /\ t # <<>>
    THEN (IF build = "wrap" THEN NegWord(t, n) ELSE Zeros(n))
    ELSE IF Len(t) > 8 * n /\ build = "saturate" THEN [k \in 1..n |-> 255]
    ELSE BitsWord(t, n)

\* int8_t buf[i] = x
ToInt8(x, build) ==
    LET t == Trunc(x) IN
    IF x.neg = 1
    THEN (IF Leq(t, FromNat(128)) \/ build = "wrap" THEN NegWord(t, 1) ELSE <<128>>)
    ELSE (IF Leq(t, FromNat(127)) \/ build = "wrap" THEN BitsWord(t, 1) ELSE <<127>>)

\* the word a pcm_write_ routine stores for the sample w
StoreWord(mem, disk, w, build) ==
    LET n == DiskSize(disk)
        f == F32Value(w)
        x == IF DiskSign(disk) = "s" THEN DenormSigned(f, 8 * n)
             ELSE DenormUnsigned(f, 8 * n)
    IN  IF mem = "f32"
        THEN (IF DiskSign(disk) = "f" THEN w
              ELSE IF n = 1 THEN ToInt8(x, build)
              ELSE ToUnsigned(x, n, build))
        ELSE IF DiskSign(disk) = "f"
        THEN F32Word(ToFloat(IF MemSign(mem) = "s" THEN NormSigned(w)
                             ELSE NormUnsigned(w)))
        ELSE IF MemSign(mem) = DiskSign(disk) THEN Resize(w, n)
        ELSE IF mem \in {"s16", "s32"} THEN Bias(Resize(w, n))
        ELSE Resize(Bias(w), n)

\* the macro a pcm_write_ routine stores the word with
Pack(mem, disk, s) ==
    CASE disk \in {"s8", "u8"} -> s
      [] disk \in {"s16le", "u16le"} -> W16LE(s)
      [] disk \in {"s16be", "u16be"} -> W16BE(s)
      [] disk \in {"s32le", "u32le"} -> W32LE(s)
      [] disk \in {"s32be", "u32be"} -> W32BE(s)
      [] disk = "f32le" -> WFLE(s)
      [] disk = "f32be" -> IF mem = "s8" THEN WFLE(s) ELSE WFBE(s)

\* the bytes pcm_write_<mem>_as_<disk> puts in its buffer for len samples
RECURSIVE pcm_write(_, _, _, _)
pcm_write(mem, disk, samples, build) ==
    IF samples = <<>> THEN <<>>
    ELSE Pack(mem, disk, StoreWord(mem, disk, Head(samples), build))
         \o pcm_write(mem, disk, Tail(samples), build)

\* the float pcm_read_<disk>_as_f32 makes of the bytes p of one sample
ReadF32(disk, p) ==
    CASE disk = "s8" -> F32Word(ToFloat(NormSigned(p)))
      [] disk = "u8" -> F32Word(ToFloat(NormUnsigned(p)))
      [] disk = "s16le" -> F32Word(NormS16(R16LE(p)))
      [] disk = "s16be" -> F32Word(NormS16(R16BE(p)))
      [] disk = "u16le" -> F32Word(ToFloat(NormUnsigned(R16LE(p))))
      [] disk = "u16be" -> F32Word(ToFloat(NormUnsigned(R16BE(p))))
      [] disk = "s32le" -> F32Word(NormS32(R32LE(p)))
      [] disk = "s32be" -> F32Word(NormS32(R32BE(p)))
      [] disk = "u32le" -> F32Word(ToFloat(NormUnsigned(R32LE(p))))
      [] disk = "u32be" -> F32Word(ToFloat(NormUnsigned(R32BE(p))))
      [] disk = "f32le" -> RFLE(p)
      [] disk = "f32be" -> RFBE(p)

\* the bytes of the k-th sample of a stream
SampleAt(disk, bytes, k) ==
    SubSeq(bytes, (k - 1) * DiskSize(disk) + 1, k * DiskSize(disk))

\* the floats pcm_read_<disk>_as_f32 stores for the r bytes read
pcm_read_f32(disk, bytes) ==
    [k \in 1..(Len(bytes) \div DiskSize(disk)) |->
        ReadF32(disk, SampleAt(disk, bytes, k))]

\* sizeof(T) of an in-memory sample type
MemSize(t) ==
    CASE t \in {"s8", "u8"} -> 1
      [] t \in {"s16", "u16"} -> 2
      [] OTHER -> 4

\* the word a pcm_read_ routine takes from the bytes p of one sample
Unpack(disk, p) ==
    CASE disk \in {"s8", "u8"} -> p
      [] disk \in {"s16le", "u16le"} -> R16LE(p)
      [] disk \in {"s16be", "u16be"} -> R16BE(p)
      [] disk \in {"s32le", "u32le"} -> R32LE(p)
      [] disk \in {"s32be", "u32be"} -> R32BE(p)
      [] disk = "f32le" -> RFLE(p)
      [] disk = "f32be" -> RFBE(p)

\* the words of INTn_MAX and INTn_MIN, n bytes
MaxWord(n) == [k \in 1..n |-> IF k = n THEN 127 ELSE 255]

MinWord(n) == [k \in 1..n |-> IF k = n THEN 128 ELSE 0]

\* int8_t, int16_t, int32_t *samples++ = x, x a float: a value the type
\* cannot hold is undefined; a build keeps the low bits of the 32-bit
\* conversion (which itself gives INT32_MIN for what it cannot hold) or
\* stops at the nearest value of the type
ToSigned(x, n, build) ==
    LET t == Trunc(x)
        fits == IF x.neg = 1 THEN Leq(t, Shl(<<1>>, 8 * n - 1))
                ELSE Leq(t, Ones(8 * n - 1))
    IN  IF fits THEN (IF x.neg = 1 THEN NegWord(t, n) ELSE BitsWord(t, n))
        ELSE IF build = "saturate"
        THEN (IF x.neg = 1 THEN MinWord(n) ELSE MaxWord(n))
        ELSE IF n = 4 THEN MinWord(4)
        ELSE IF x.neg = 1 THEN NegWord(t, n) ELSE BitsWord(t, n)

\* the float f of ((f=RFLE(p))>0) and of (f=RFBE(p) > 0): pcm_read_f32be_as_s8
\* assigns the comparison's result
ReadF(mem, disk, w) ==
    IF mem = "s8" /\ disk = "f32be"
    THEN (IF Positive(F32Value(w)) THEN One ELSE Fl(0, <<>>, 0))
    ELSE F32Value(w)

\* the word a pcm_read_<disk>_as_<mem> routine stores for the bytes p
LoadWord(mem, disk, p, build) ==
    LET w == Unpack(disk, p)
        n == MemSize(mem)
        f == ReadF(mem, disk, w)
        taken == IF mem = "s8" /\ disk = "f32be" THEN f.m # <<>>
                 ELSE Positive(f)
    IN  IF mem = "f32" THEN ReadF32(disk, p)
        ELSE IF DiskSign(disk) = "f"
        THEN (IF MemSign(mem) = "s"
              THEN ToSigned(IF taken THEN FMul(f, ToFloat(INT_MAX(8 * n)), 24)
                            ELSE FMul(Negate(f), ToFloat(INT_MIN(8 * n)), 24),
                            n, build)
              ELSE ToUnsigned(DenormUnsigned(f, 8 * n), n, build))
        ELSE IF MemSign(mem) = DiskSign(disk) THEN Resize(w, n)
        ELSE IF disk \in {"s16le", "s16be", "s32le", "s32be"}
        THEN Bias(Resize(w, n))
        ELSE Resize(Bias(w), n)

\* the samples pcm_read_<disk>_as_<mem> stores for the r bytes read
pcm_read(mem, disk, bytes, build) ==
    [k \in 1..(Len(bytes) \div DiskSize(disk)) |->
        LoadWord(mem, disk, SampleAt(disk, bytes, k), build)]

----------------------------------------------------------------------------
\* test-rw.c: a wave is written to a stream of each encoding in turn and,
\* a wave of floats, read back.

\* the names of the encodings table, in its order
encodings ==
    <<"s8", "u8", "s16le", "s16be", "u16le", "u16be",
      "s32le", "s32be", "u32le", "u32be", "f32le", "f32be">>

NUMENCODING == 12

\* the longest wave
MaxWave == 2

\* the samples of the waves: for the integer types the extreme values, 0,
\* 1 and -1 (or the value in the middle), 255 on 16 bits, 0x12345678 and
\* 2^24 + 1 on 32 bits; for float 0.0, -0.0, 0.5, 1.0, -1.0, 129/16384,
\* 0.1f, -0.3f and, outside [-1, 1], 1.5
SampleValues(t) ==
    CASE t \in {"s8", "u8"} -> {<<128>>, <<255>>, <<0>>, <<1>>, <<127>>}
      [] t \in {"s16", "u16"} ->
            {<<0, 128>>, <<255, 255>>, <<0, 0>>, <<1, 0>>, <<255, 127>>,
             <<255, 0>>}
      [] t \in {"s32", "u32"} ->
            {<<0, 0, 0, 128>>, <<255, 255, 255, 255>>, <<0, 0, 0, 0>>,
             <<120, 86, 52, 18>>, <<255, 255, 255, 127>>,
             <<1, 0, 0, 1>>}
      [] t = "f32" ->
            {<<0, 0, 0, 0>>, <<0, 0, 0, 128>>, <<0, 0, 0, 63>>,
             <<0, 0, 128, 63>>, <<0, 0, 128, 191>>, <<0, 0, 1, 60>>,
             <<205, 204, 204, 61>>, <<154, 153, 153, 190>>,
             <<0, 0, 192, 63>>}

\* the wave 0.0, 0.5, -1.0
ThreeFloats == <<(<<0, 0, 0, 0>>), (<<0, 0, 0, 63>>), (<<0, 0, 128, 191>>)>>

Waves(t) ==
    UNION {[1..n -> SampleValues(t)] : n \in 1..MaxWave}
        \cup (IF t = "f32" THEN {ThreeFloats} ELSE {})

NoFiles == [e \in Encodings |-> <<>>]

NoConv ==
    [mem |-> "", build |-> "", wave |-> <<>>, i |-> 0, opened |-> "",
     files |-> NoFiles, rbuf |-> NoFiles, enc |-> "", rmem |-> "",
     got |-> <<>>]

\* testrw up to its first au_close: the wave written with au_write_<mem>
testrw_write ==
    /\ cv.mem # ""
    /\ cv.opened = ""
    /\ cv.i < NUMENCODING
    /\ LET e == encodings[cv.i + 1] IN
       cv' = [cv EXCEPT !.files[e] = pcm_write(cv.mem, e, cv.wave, cv.build),
                        !.opened = IF cv.mem = "f32" THEN e ELSE "",
                        !.i = IF cv.mem = "f32" THEN @ ELSE @ + 1]
    /\ UNCHANGED <<info, file, fds, pc, call, ret, warned, last, avail, hist>>

\* testrw from there: the stream read back with au_read_f32
testrw_read ==
    /\ cv.opened # ""
    /\ cv' = [cv EXCEPT !.rbuf[cv.opened] = pcm_read_f32(cv.opened, cv.files[cv.opened]),
                        !.opened = "",
                        !.i = @ + 1]
    /\ UNCHANGED <<info, file, fds, pc, call, ret, warned, last, avail, hist>>

----------------------------------------------------------------------------
\* audio.c: one stream written with au_write_<mem>, closed, opened again and
\* read with au_read_<rmem>, the conversions only.

\* au_write_T: the routine pcm_init bound for the stream's encoding
au_write_T ==
    /\ cv.enc # ""
    /\ cv.files[cv.enc] = <<>>
    /\ cv' = [cv EXCEPT
                !.files[cv.enc] = pcm_write(cv.mem, cv.enc, cv.wave, cv.build)]
    /\ UNCHANGED <<info, file, fds, pc, call, ret, warned, last, avail, hist>>

\* au_read_T, for the type t
au_read_T(t) ==
    /\ cv.enc # ""
    /\ cv.files[cv.enc] # <<>>
    /\ cv.rmem = ""
    /\ cv' = [cv EXCEPT
                !.rmem = t,
                !.got = pcm_read(t, cv.enc, cv.files[cv.enc], cv.build)]
    /\ UNCHANGED <<info, file, fds, pc, call, ret, warned, last, avail, hist>>

----------------------------------------------------------------------------

Init ==
    /\ info = [filetype |-> AU_FILETYPE_UNKNOWN, srate |-> 0, encoding |-> 0,
               channels |-> 0, samples |-> 0]
    /\ file = NoFile
    /\ fds = {}
    /\ pc = "idle"
    /\ call = NoCall
    /\ ret = 0
    /\ warned = ""
    /\ last = NoLast
    /\ avail = 0
    /\ hist = NoHist
    /\ cv = NoConv

Next ==
    \/ \E f \in {"filetype", "srate", "channels"} :
          \E v \in FieldValues(f) : SetField(f, v)
    \/ \E t \in EncTypes, s \in Signs, o \in Orders, w \in Widths :
          SetEncoding(t, s, o, w)
    \/ \E p \in Paths, m \in {AU_READ, AU_WRITE}, ok \in BOOLEAN :
          au_open(p, m, ok)
    \/ \E ok \in BOOLEAN : au_close(ok)

Spec == Init /\ [][Next]_vars

----------------------------------------------------------------------------
\* Properties of au_open, checked on Spec.

\* the twelve (signedness, byte order, bit width) triples
TwelveTriples ==
    {<<s, AU_ORDER_NONE, 8>> : s \in {AU_ENCODING_SIGNED, AU_ENCODING_UNSIGNED}}
    \cup {<<s, o, w>> : s \in {AU_ENCODING_SIGNED, AU_ENCODING_UNSIGNED},
                        o \in {AU_ORDER_LE, AU_ORDER_BE}, w \in {16, 32}}
    \cup {<<AU_ENCODING_FLOAT, o, 32>> : o \in {AU_ORDER_LE, AU_ORDER_BE}}

TripleOf(e) == <<Encoding(e), Order(e), Bitsize(e)>>

\* au_open has just been called on a path that open(2) accepts (or on "-")
JustOpened ==
    /\ last.called
    /\ last.path # <<>>
    /\ (last.path = PathStdio \/ last.openOk)

\* the configuration is complete apart from the triple
OtherwiseComplete ==
    /\ JustOpened
    /\ info.filetype = AU_FILETYPE_RAW
    /\ info.srate # 0
    /\ EncType(info.encoding) = AU_ENCTYPE_PCM
    /\ info.channels # 0

\* C1: with raw file type, sample rate set, category PCM and channels
\* nonzero, au_open returns a handle if and only if the (signedness, byte
\* order, bit width) of the descriptor is one of the twelve triples, in read
\* mode and in write mode alike; with any other triple it returns NULL.
C1_TwelveTriples ==
    OtherwiseComplete =>
        /\ (last.ptr = 1) = (TripleOf(info.encoding) \in TwelveTriples)
        /\ file.ptr = last.ptr
        /\ ret = last.ptr

\* a handle on a big-endian float stream opened for reading
C1_Witness ==
    /\ OtherwiseComplete
    /\ last.mode = AU_READ
    /\ TripleOf(info.encoding) = <<AU_ENCODING_FLOAT, AU_ORDER_BE, 32>>
    /\ file.ptr = 1
    /\ file.au_read["f32"] = Routine("read", "f32be", "f32")

\* the attribute checks apply: write mode, or a raw file
AttributesChecked ==
    /\ JustOpened
    /\ info.filetype # AU_FILETYPE_UNKNOWN
    /\ (last.mode = AU_WRITE \/ info.filetype = AU_FILETYPE_RAW)

\* which of the six attributes are unset, in the order of the checks
UnsetAttrs ==
    <<info.srate = 0,
      EncType(info.encoding) = 0,
      Encoding(info.encoding) = 0,
      Bitsize(info.encoding) = 0,
      Bitsize(info.encoding) > 8 /\ Order(info.encoding) = 0,
      info.channels = 0>>

AttrNames ==
    <<"no sample rate", "no encoding type", "no encoding", "no bitsize",
      "no byteorder", "no channels">>

\* C2: in write mode, or in read mode on a raw file, au_open returns NULL
\* whenever sample rate, category, signedness, bit width, byte order (for a
\* width above 8) or channel count is unset, and the complaint names the
\* first of them that is unset, in that order; a handle is returned only
\* with all of them set.
C2_FirstMissingAttribute ==
    AttributesChecked =>
        /\ \A k \in 1..6 :
              (UnsetAttrs[k] /\ \A j \in 1..(k - 1) : ~UnsetAttrs[j])
                  => (last.ptr = 0 /\ file.ptr = 0 /\ warned = AttrNames[k])
        /\ (last.ptr = 1 => \A k \in 1..6 : ~UnsetAttrs[k])

\* write mode, sample rate, category and signedness set, bit width unset
C2_Witness ==
    /\ AttributesChecked
    /\ last.mode = AU_WRITE
    /\ info.srate # 0
    /\ EncType(info.encoding) # 0
    /\ Encoding(info.encoding) # 0
    /\ Bitsize(info.encoding) = 0
    /\ last.ptr = 0
    /\ warned = "no bitsize"

----------------------------------------------------------------------------
\* The typed calls, from the states in which au_open has just returned a
\* handle on a raw file of one of the encodings pcm_init knows.

\* the encoding word of a case label of pcm_init
WordOf(disk) ==
    CHOOSE e \in {AU_ENCTYPE_PCM + s + o + w : s \in Signs, o \in Orders, w \in Widths} :
        CaseOf(e) = disk

IoInit ==
    \E disk \in Encodings, m \in {AU_READ, AU_WRITE}, n \in {0, 5}, b \in Avails :
        LET i == [filetype |-> AU_FILETYPE_RAW, srate |-> 48000,
                  encoding |-> WordOf(disk), channels |-> 1, samples |-> n]
            r == OpenResult(i, {}, PathRaw, m, TRUE)
        IN  /\ r.ptr = 1
            /\ (m = AU_WRITE => b = 0)
            /\ (m = AU_READ => n = 0)
            /\ info = r.info
            /\ file = r.file
            /\ fds = r.fds
            /\ pc = "idle"
            /\ call = NoCall
            /\ ret = r.ptr
            /\ warned = r.warned
            /\ last = [called |-> TRUE, path |-> PathRaw, mode |-> m,
                       openOk |-> TRUE, ptr |-> r.ptr]
            /\ avail = b
            /\ hist = [calls |-> 0, samples0 |-> r.info.samples, wsum |-> 0]
            /\ cv = NoConv

\* the encoding words a caller reusing its AUINFO writes into it
Reused == {WordOf("u8"), WordOf("f32be")}

IoNext ==
    \/ \E t \in Types, n \in Lens : au_read(t, n)
    \/ read_chunk
    \/ \E t \in Types, n \in Lens : au_write(t, n)
    \/ write_chunk
    \/ io_error
    \/ \E ok \in BOOLEAN : au_close(ok)
    \/ \E e \in Reused : caller_sets_encoding(e)

IoSpec == IoInit /\ [][IoNext]_vars

----------------------------------------------------------------------------
\* The conversions, from a wave of any in-memory type: test-rw's loop over
\* the encodings table.

ConvInit ==
    /\ info = [filetype |-> AU_FILETYPE_UNKNOWN, srate |-> 0, encoding |-> 0,
               channels |-> 0, samples |-> 0]
    /\ file = NoFile
    /\ fds = {}
    /\ pc = "idle"
    /\ call = NoCall
    /\ ret = 0
    /\ warned = ""
    /\ last = NoLast
    /\ avail = 0
    /\ hist = NoHist
    /\ \E t \in Types, b \in Builds :
          \E w \in Waves(t) :
             cv = [NoConv EXCEPT !.mem = t, !.build = b, !.wave = w]

ConvNext ==
    \/ testrw_write
    \/ testrw_read

ConvSpec == ConvInit /\ [][ConvNext]_vars

----------------------------------------------------------------------------
\* The conversions between any two sample types through a stream of any
\* encoding: one sample written, then read back as any type.

CodecInit ==
    /\ info = [filetype |-> AU_FILETYPE_UNKNOWN, srate |-> 0, encoding |-> 0,
               channels |-> 0, samples |-> 0]
    /\ file = NoFile
    /\ fds = {}
    /\ pc = "idle"
    /\ call = NoCall
    /\ ret = 0
    /\ warned = ""
    /\ last = NoLast
    /\ avail = 0
    /\ hist = NoHist
    /\ \E t \in Types, e \in Encodings, b \in Builds :
          \E v \in SampleValues(t) :
             cv = [NoConv EXCEPT !.mem = t, !.enc = e, !.build = b,
                                 !.wave = <<v>>]

CodecNext ==
    \/ au_write_T
    \/ \E t \in Types : au_read_T(t)

CodecSpec == CodecInit /\ [][CodecNext]_vars

----------------------------------------------------------------------------
\* Properties of the typed calls, checked on IoSpec.

\* C3: a typed read call whose read primitive has signalled end-of-data
\* (0 bytes for a request of more) before n samples were delivered has
\* stopped and returned the number of samples delivered so far, 0 when the
\* stream was at end-of-data from the start; for every encoding and type.
C3_ReadStopsAtEndOfData ==
    (call.routine.dir = "read" /\ call.eofs >= 1) =>
        (pc = "idle" /\ ret = call.tot)

\* C4: when the read or write primitive under a typed call has failed, the
\* call has returned -1 and its caller is still running.
C4_FailureReturnsMinusOne ==
    call.ioerr = 1 => (pc = "idle" /\ ret = -1)

\* C5: a typed write call whose write primitive has accepted fewer bytes
\* than it was asked to write for a chunk has ended its loop: it has issued
\* no write after the short one and has returned the samples written so far.
C5_ShortWriteEndsLoop ==
    (call.routine.dir = "write" /\ call.shorts >= 1) =>
        (pc = "idle" /\ call.after = 0 /\ ret = call.tot)

\* C6: between the typed write calls on a write handle, info->samples is
\* its value at open plus the sum of the counts the calls have returned.
C6_SamplesCounter ==
    (file.ptr = 1 /\ file.mode = AU_WRITE /\ pc = "idle") =>
        info.samples = hist.samples0 + hist.wsum

----------------------------------------------------------------------------
\* Properties of the conversions, checked on ConvSpec.

\* the bytes of one sample in the opposite order
Reversed(p) == [i \in 1..Len(p) |-> p[Len(p) + 1 - i]]

\* the pairs of encodings that differ only in byte order
EndianPairs ==
    {<<"s16le", "s16be">>, <<"u16le", "u16be">>, <<"s32le", "s32be">>,
     <<"u32le", "u32be">>, <<"f32le", "f32be">>}

\* x - y, exactly
Diff(x, y) == FAdd(x, Negate(y), 512)

\* |x| <= 2^k
AbsLeq(x, k) ==
    LET e == MIN(x.e, k)
    IN  Leq(Shl(x.m, x.e - e), Shl(<<1>>, k - e))

\* the float of pattern w lies in [-1.0, 1.0]
InUnit(w) == AbsLeq(F32Value(w), 0)

\* the floats of patterns v and w are the same value
SameValue(v, w) == Diff(F32Value(v), F32Value(w)).m = <<>>

\* C7: once au_write_T has written the wave on both streams of a pair of
\* encodings that differ only in byte order, the two streams hold the same
\* number of bytes and every sample of the big-endian stream is the
\* byte-reversal of the sample at the same place of the little-endian one;
\* for every in-memory type T.
C7_ByteReversal ==
    \A pair \in EndianPairs :
        LET le == cv.files[pair[1]]
            be == cv.files[pair[2]]
        IN  (le # <<>> /\ be # <<>>) =>
                /\ Len(be) = Len(le)
                /\ Len(le) = Len(cv.wave) * DiskSize(pair[1])
                /\ \A k \in 1..Len(cv.wave) :
                      SampleAt(pair[2], be, k)
                          = Reversed(SampleAt(pair[1], le, k))

\* C8: a wave of floats written with au_write_f32 on a float stream lies on
\* disk as the four bytes of each sample's 32-bit pattern, least significant
\* byte first on f32le and most significant byte first on f32be, and
\* au_read_f32 returns every sample with the pattern it was written with.
C8_FloatPatternKept ==
    cv.mem = "f32" =>
        \A e \in {"f32le", "f32be"} :
            /\ cv.files[e] # <<>> =>
                  /\ Len(cv.files[e]) = 4 * Len(cv.wave)
                  /\ \A k \in 1..Len(cv.wave) :
                        SampleAt(e, cv.files[e], k) =
                            IF e = "f32le" THEN cv.wave[k]
                            ELSE Reversed(cv.wave[k])
            /\ cv.rbuf[e] # <<>> => cv.rbuf[e] = cv.wave

\* a wave of 0.1f and -0.3f, whose patterns read differently from either
\* end, has been written to the big-endian float stream and read back
C8_Witness ==
    /\ cv.mem = "f32"
    /\ cv.wave = <<(<<205, 204, 204, 61>>), (<<154, 153, 153, 190>>)>>
    /\ cv.files["f32be"] # <<>>
    /\ cv.rbuf["f32be"] # <<>>
    /\ cv.rbuf["f32le"] # <<>>

\* C9: every float of [-1.0, 1.0] written with au_write_f32 on a signed or
\* unsigned 32-bit integer stream is read back by au_read_f32 as the same
\* value, the end points 1.0 and -1.0 included.
C9_ExactOn32BitIntegers ==
    cv.mem = "f32" =>
        \A e \in {"s32le", "s32be", "u32le", "u32be"} :
            cv.rbuf[e] # <<>> =>
                \A k \in 1..Len(cv.wave) :
                    InUnit(cv.wave[k]) => SameValue(cv.rbuf[e][k], cv.wave[k])

\* C10: every float f of [-1.0, 1.0] written with au_write_f32 on an 8-bit
\* or 16-bit stream is read back by au_read_f32 as a g with
\* |f - g| <= 2 / 2^w, w the width of the encoding.
C10_QuantizationBound ==
    cv.mem = "f32" =>
        \A e \in {"s8", "u8", "s16le", "s16be", "u16le", "u16be"} :
            cv.rbuf[e] # <<>> =>
                \A k \in 1..Len(cv.wave) :
                    InUnit(cv.wave[k]) =>
                        AbsLeq(Diff(F32Value(cv.wave[k]),
                                    F32Value(cv.rbuf[e][k])),
                               1 - 8 * DiskSize(e))

\* C11: the wave 0.0, 0.5, -1.0 written with au_write_f32 on a signed 16-bit
\* little-endian stream is read back by au_read_f32 as three values, in the
\* same order, each within 1/32768 of the value written.
C11_ThreeFloatsOnS16le ==
    (cv.mem = "f32" /\ cv.wave = ThreeFloats /\ cv.rbuf["s16le"] # <<>>) =>
        /\ Len(cv.rbuf["s16le"]) = 3
        /\ \A k \in 1..3 :
              AbsLeq(Diff(F32Value(ThreeFloats[k]),
                          F32Value(cv.rbuf["s16le"][k])), -15)

----------------------------------------------------------------------------
\* Properties of the conversions between types, checked on CodecSpec.

\* the integer of a 16-bit word, read as int16_t
Int16(w) ==
    LET u == w[1] + 256 * w[2] IN IF u >= 32768 THEN u - 65536 ELSE u

\* the word the bytes b of one sample are in the byte order of the
\* encoding e
StreamWord(e, b) ==
    IF e \in {"s16be", "u16be", "s32be", "u32be", "f32be"}
    THEN Reversed(b) ELSE b

\* the values x and y are equal
Same(x, y) == Diff(x, y).m = <<>>

\* 2^k
Pow2(k) == Fl(0, <<1>>, k)

\* the integer types and the integer encodings
IntTypes == Types \ {"f32"}

IntEncodings == Encodings \ {"f32le", "f32be"}

\* C12: a signed 16-bit value v written with au_write_s16 on an unsigned
\* 16-bit stream of either byte order is stored as v + 0x8000, and
\* au_read_s16 on that stream returns v.
C12_BiasRoundTrip ==
    (cv.mem = "s16" /\ cv.enc \in {"u16le", "u16be"}
        /\ cv.files[cv.enc] # <<>>) =>
        LET b == cv.files[cv.enc]
            stored == IF cv.enc = "u16le" THEN b[1] + 256 * b[2]
                      ELSE 256 * b[1] + b[2]
        IN  /\ Len(b) = 2
            /\ stored = Int16(cv.wave[1]) + 32768
            /\ cv.rmem = "s16" => cv.got = cv.wave

\* -1 has been written on the big-endian unsigned stream and read back
C12_Witness ==
    /\ cv.mem = "s16"
    /\ cv.enc = "u16be"
    /\ cv.wave = <<(<<255, 255>>)>>
    /\ cv.files["u16be"] = <<127, 255>>
    /\ cv.rmem = "s16"
    /\ cv.got = <<(<<255, 255>>)>>

\* the unsigned word uw is the signed word sw plus 2^(w-1), w their width
OffsetBinary(sw, uw) ==
    /\ Len(sw) = Len(uw)
    /\ Same(Unsigned(uw), FAdd(Signed(sw), Pow2(8 * Len(sw) - 1), 512))

\* C13: between a signed and an unsigned integer of the same width, 8, 16
\* or 32, the value on the unsigned side is the value on the signed side
\* plus 2^(w-1): on the write path (a signed sample on an unsigned stream,
\* an unsigned sample on a signed stream) and on the read path (an unsigned
\* stream read as signed, a signed stream read as unsigned). The unsigned
\* 8-bit value 0 written with au_write_u8 on an unsigned 8-bit stream is
\* read back by au_read_s8 as -128.
C13_OffsetBinary ==
    (cv.enc \in IntEncodings /\ cv.files[cv.enc] # <<>>) =>
        LET sw == StreamWord(cv.enc, cv.files[cv.enc]) IN
        /\ (cv.mem \in IntTypes /\ MemSize(cv.mem) = DiskSize(cv.enc)
               /\ MemSign(cv.mem) # DiskSign(cv.enc)) =>
              IF MemSign(cv.mem) = "s" THEN OffsetBinary(cv.wave[1], sw)
              ELSE OffsetBinary(sw, cv.wave[1])
        /\ (cv.rmem \in IntTypes /\ MemSize(cv.rmem) = DiskSize(cv.enc)
               /\ MemSign(cv.rmem) # DiskSign(cv.enc)) =>
              IF MemSign(cv.rmem) = "s" THEN OffsetBinary(cv.got[1], sw)
              ELSE OffsetBinary(sw, cv.got[1])
        /\ (cv.mem = "u8" /\ cv.enc = "u8" /\ cv.wave = <<(<<0>>)>>
               /\ cv.rmem = "s8") =>
              Same(Signed(cv.got[1]), Negate(Pow2(7)))

\* the unsigned 8-bit value 0 has been written on an unsigned 8-bit stream
\* and read back with au_read_s8
C13_Witness ==
    /\ cv.mem = "u8"
    /\ cv.enc = "u8"
    /\ cv.wave = <<(<<0>>)>>
    /\ cv.files["u8"] = <<0>>
    /\ cv.rmem = "s8"
    /\ cv.got = <<(<<128>>)>>

\* C14: an integer sample v written with au_write_T on a stream of T's own
\* signedness and width is stored unchanged, as the w/8 bytes of v in the
\* byte order of the stream, and au_read_T on that stream returns v.
C14_SameTypePassThrough ==
    (cv.mem \in IntTypes /\ cv.enc \in IntEncodings
        /\ MemSize(cv.mem) = DiskSize(cv.enc)
        /\ MemSign(cv.mem) = DiskSign(cv.enc)
        /\ cv.files[cv.enc] # <<>>) =>
        /\ Len(cv.files[cv.enc]) = MemSize(cv.mem)
        /\ StreamWord(cv.enc, cv.files[cv.enc]) = cv.wave[1]
        /\ cv.rmem = cv.mem => cv.got = cv.wave

\* 255 has been written with au_write_u16 on the big-endian unsigned 16-bit
\* stream, high byte first, and read back with au_read_u16
C14_Witness ==
    /\ cv.mem = "u16"
    /\ cv.enc = "u16be"
    /\ cv.wave = <<(<<255, 0>>)>>
    /\ cv.files["u16be"] = <<0, 255>>
    /\ cv.rmem = "u16"
    /\ cv.got = <<(<<255, 0>>)>>

\* the integer of the word w of a type or encoding of signedness sign
Value(sign, w) == IF sign = "s" THEN Signed(w) ELSE Unsigned(w)

\* floor(v / 2^k) of the integer v
FloorDiv(v, k) ==
    IF v.neg = 0 THEN Fl(0, Shr(Shl(v.m, v.e), k), 0)
    ELSE Fl(1, Shr(Add(Shl(v.m, v.e), Ones(k)), k), 0)

\* C15: narrowing between integer widths of the same signedness, 16 to 8,
\* 32 to 16 and 32 to 8, gives floor(v / 2^(source width - destination
\* width)) of the source value v, on the write path (a wider sample on a
\* narrower stream) and on the read path (a wider stream read as a narrower
\* type): -1 narrows to -1 and 255 to 0.
C15_NarrowingIsFloor ==
    (cv.enc \in IntEncodings /\ cv.files[cv.enc] # <<>>) =>
        LET sw == StreamWord(cv.enc, cv.files[cv.enc])
            sign == DiskSign(cv.enc)
        IN
        /\ (cv.mem \in IntTypes /\ MemSign(cv.mem) = sign
               /\ MemSize(cv.mem) > DiskSize(cv.enc)) =>
              Same(Value(sign, sw),
                   FloorDiv(Value(sign, cv.wave[1]),
                            8 * (MemSize(cv.mem) - DiskSize(cv.enc))))
        /\ (cv.rmem \in IntTypes /\ MemSign(cv.rmem) = sign
               /\ MemSize(cv.rmem) < DiskSize(cv.enc)) =>
              Same(Value(sign, cv.got[1]),
                   FloorDiv(Value(sign, sw),
                            8 * (DiskSize(cv.enc) - MemSize(cv.rmem))))

\* -1 has been written with au_write_s16 on a signed 8-bit stream as -1
\* and read back with au_read_s8
C15_Witness ==
    /\ cv.mem = "s16"
    /\ cv.enc = "s8"
    /\ cv.wave = <<(<<255, 255>>)>>
    /\ cv.files["s8"] = <<255>>
    /\ cv.rmem = "s8"
    /\ cv.got = <<(<<255>>)>>

\* C16: widening between integer widths of the same signedness, 8 to 16,
\* 8 to 32 and 16 to 32, gives v * 2^(destination width - source width) of
\* the source value v, on the write path and on the read path: the low-order
\* bits are zero, and the signed 8-bit 127 widens to 0x7F00.
C16_WideningIsShift ==
    (cv.enc \in IntEncodings /\ cv.files[cv.enc] # <<>>) =>
        LET sw == StreamWord(cv.enc, cv.files[cv.enc])
            sign == DiskSign(cv.enc)
        IN
        /\ (cv.mem \in IntTypes /\ MemSign(cv.mem) = sign
               /\ MemSize(cv.mem) < DiskSize(cv.enc)) =>
              Same(Value(sign, sw),
                   FMul(Value(sign, cv.wave[1]),
                        Pow2(8 * (DiskSize(cv.enc) - MemSize(cv.mem))), 512))
        /\ (cv.rmem \in IntTypes /\ MemSign(cv.rmem) = sign
               /\ MemSize(cv.rmem) > DiskSize(cv.enc)) =>
              Same(Value(sign, cv.got[1]),
                   FMul(Value(sign, sw),
                        Pow2(8 * (MemSize(cv.rmem) - DiskSize(cv.enc))), 512))

\* 127 has been written with au_write_s8 on the little-endian signed
\* 16-bit stream as 0x7F00 and read with au_read_s32 as 0x7F000000
C16_Witness ==
    /\ cv.mem = "s8"
    /\ cv.enc = "s16le"
    /\ cv.wave = <<(<<127>>)>>
    /\ cv.files["s16le"] = <<0, 127>>
    /\ cv.rmem = "s32"
    /\ cv.got = <<(<<0, 0, 0, 127>>)>>

\* |x| <= |y|
AbsLeqOf(x, y) ==
    LET e == MIN(x.e, y.e)
    IN  Leq(Shl(x.m, x.e - e), Shl(y.m, y.e - e))

\* the float r is the quotient v / d to the precision of a float: r * d is
\* within |v| / 2^23 of v
QuotientAsFloat(r, v, d) ==
    AbsLeqOf(FMul(Diff(FMul(r, d, 512), v), Pow2(23), 512), v)

\* the float r is what the signed integer v of width bits normalizes to
SignedNormal(r, v, bits) ==
    /\ IF Positive(v) THEN QuotientAsFloat(r, v, INT_MAX(bits))
       ELSE QuotientAsFloat(r, v, Pow2(bits - 1))
    /\ AbsLeq(r, 0)
    /\ Same(v, INT_MAX(bits)) => Same(r, One)
    /\ Same(v, INT_MIN(bits)) => Same(r, MinusOne)
    /\ v.m = <<>> => r.m = <<>>

\* C17: a signed integer sample v of width w becomes the float
\* v / (2^(w-1) - 1) when v > 0 and v / 2^(w-1) otherwise, on the write path
\* (a signed sample on a float stream) and on the read path (a signed stream
\* read as f32); the float lies in [-1.0, 1.0], the maximum gives 1.0, the
\* minimum -1.0 and 0 gives 0.0.
C17_SignedNormalization ==
    (cv.enc # "" /\ cv.files[cv.enc] # <<>>) =>
        LET sw == StreamWord(cv.enc, cv.files[cv.enc]) IN
        /\ (cv.mem \in {"s8", "s16", "s32"} /\ DiskSign(cv.enc) = "f") =>
              SignedNormal(F32Value(sw), Signed(cv.wave[1]),
                           8 * MemSize(cv.mem))
        /\ (cv.enc \in {"s8", "s16le", "s16be", "s32le", "s32be"}
               /\ cv.rmem = "f32") =>
              SignedNormal(F32Value(cv.got[1]), Signed(sw),
                           8 * DiskSize(cv.enc))

\* the float r is what the unsigned integer u of width bits normalizes to:
\* r * (2^bits - 1) is within (2^bits - 1) / 2^24 of 2 * u - (2^bits - 1)
UnsignedNormal(r, u, bits) ==
    LET max == UINT_MAX(bits) IN
    /\ AbsLeqOf(FMul(Diff(FMul(r, max, 512),
                          Diff(FMul(Two, u, 512), max)), Pow2(24), 512),
                max)
    /\ AbsLeq(r, 0)
    /\ u.m = <<>> => Same(r, MinusOne)
    /\ Same(u, max) => Same(r, One)

\* C18: an unsigned integer sample u of width w becomes the float
\* -1.0 + 2.0 * u / (2^w - 1), whatever u is, on the write path (an unsigned
\* sample on a float stream) and on the read path (an unsigned stream read
\* as f32); 0 gives -1.0, the maximum gives 1.0, and the float lies in
\* [-1.0, 1.0].
C18_UnsignedNormalization ==
    (cv.enc # "" /\ cv.files[cv.enc] # <<>>) =>
        LET sw == StreamWord(cv.enc, cv.files[cv.enc]) IN
        /\ (cv.mem \in {"u8", "u16", "u32"} /\ DiskSign(cv.enc) = "f") =>
              UnsignedNormal(F32Value(sw), Unsigned(cv.wave[1]),
                             8 * MemSize(cv.mem))
        /\ (cv.enc \in {"u8", "u16le", "u16be", "u32le", "u32be"}
               /\ cv.rmem = "f32") =>
              UnsignedNormal(F32Value(cv.got[1]), Unsigned(sw),
                             8 * DiskSize(cv.enc))

\* 65535 has been written with au_write_u16 on the big-endian float stream
\* as 1.0 and read back with au_read_f32
C18_Witness ==
    /\ cv.mem = "u16"
    /\ cv.enc = "f32be"
    /\ cv.wave = <<(<<255, 255>>)>>
    /\ cv.files["f32be"] = <<63, 128, 0, 0>>
    /\ cv.rmem = "f32"
    /\ cv.got = <<(<<0, 0, 128, 63>>)>>

\* |x|
Abs(x) == Fl(0, x.m, x.e)

\* the integer x is what the float f denormalizes to for a destination of
\* the given signedness and width: the product named by the rule, cut to an
\* integer, to the precision of a float
Denormal(x, f, sign, bits) ==
    LET exact == IF sign = "s"
                 THEN FMul(f, IF Positive(f) THEN INT_MAX(bits)
                              ELSE Pow2(bits - 1), 512)
                 ELSE FMul(FMul(FAdd(One, f, 512), Pow2(-1), 512),
                           UINT_MAX(bits), 512)
    IN  AbsLeqOf(Diff(x, exact),
                 FAdd(One, FMul(Abs(exact), Pow2(-23), 512), 512))

\* C19: a float f of [-1.0, 1.0] becomes, for a signed destination of width
\* w, f * (2^(w-1) - 1) when f > 0 and f * 2^(w-1) otherwise, and for an
\* unsigned destination ((1 + f) / 2) * (2^w - 1), cut to an integer; the
\* same on the write path (a float on an integer stream) and on the read
\* path (a float stream of either byte order read as an integer type).
C19_Denormalization ==
    (cv.enc # "" /\ cv.files[cv.enc] # <<>>) =>
        LET sw == StreamWord(cv.enc, cv.files[cv.enc]) IN
        /\ (cv.mem = "f32" /\ cv.enc \in IntEncodings
               /\ InUnit(cv.wave[1])) =>
              Denormal(Value(DiskSign(cv.enc), sw), F32Value(cv.wave[1]),
                       DiskSign(cv.enc), 8 * DiskSize(cv.enc))
        /\ (cv.enc \in {"f32le", "f32be"} /\ cv.rmem \in IntTypes
               /\ InUnit(sw)) =>
              Denormal(Value(MemSign(cv.rmem), cv.got[1]), F32Value(sw),
                       MemSign(cv.rmem), 8 * MemSize(cv.rmem))

----------------------------------------------------------------------------
\* Properties of au_close, checked on Spec.

\* C20: au_close on a handle a successful au_open returned, the handles on
\* "-" included, has released the handle's descriptor, and has returned 0
\* when the release succeeded and -1 when it failed; au_close without a
\* handle has returned -1.
C20_CloseReleases ==
    /\ last.close = "no handle" => ret = -1
    /\ last.close \notin {"none", "no handle"} =>
          /\ last.close \in {"ok", "failed"}
          /\ ret = (IF last.close = "ok" THEN 0 ELSE -1)

----------------------------------------------------------------------------
\* Properties of pcm_init, checked on Spec.

\* the (signedness, byte order, bit width) a routine's on-disk name stands for
NameTriple(disk) ==
    CASE disk = "s8" -> <<AU_ENCODING_SIGNED, AU_ORDER_NONE, 8>>
      [] disk = "u8" -> <<AU_ENCODING_UNSIGNED, AU_ORDER_NONE, 8>>
      [] disk = "s16le" -> <<AU_ENCODING_SIGNED, AU_ORDER_LE, 16>>
      [] disk = "s16be" -> <<AU_ENCODING_SIGNED, AU_ORDER_BE, 16>>
      [] disk = "u16le" -> <<AU_ENCODING_UNSIGNED, AU_ORDER_LE, 16>>
      [] disk = "u16be" -> <<AU_ENCODING_UNSIGNED, AU_ORDER_BE, 16>>
      [] disk = "s32le" -> <<AU_ENCODING_SIGNED, AU_ORDER_LE, 32>>
      [] disk = "s32be" -> <<AU_ENCODING_SIGNED, AU_ORDER_BE, 32>>
      [] disk = "u32le" -> <<AU_ENCODING_UNSIGNED, AU_ORDER_LE, 32>>
      [] disk = "u32be" -> <<AU_ENCODING_UNSIGNED, AU_ORDER_BE, 32>>
      [] disk = "f32le" -> <<AU_ENCODING_FLOAT, AU_ORDER_LE, 32>>
      [] disk = "f32be" -> <<AU_ENCODING_FLOAT, AU_ORDER_BE, 32>>
      [] OTHER -> <<0, 0, 0>>

\* the slot of type t holds the routine of direction dir between the
\* descriptor's encoding and t
BoundTo(slot, dir, t) ==
    /\ slot.dir = dir
    /\ slot.mem = t
    /\ NameTriple(slot.disk) = TripleOf(info.encoding)

\* C21: when au_open returns a handle, each of the seven slots of the
\* handle's direction holds the routine converting between the descriptor's
\* encoding (its signedness, width and byte order) and the slot's type:
\* "read E as T" on a read handle, "write T as E" on a write handle; no slot
\* holds a routine of another encoding, byte order or type, and the slots of
\* the other direction are left unbound.
C21_BoundRoutines ==
    (last.called /\ last.ptr = 1) =>
        /\ file.ptr = 1
        /\ file.mode = last.mode
        /\ \A t \in Types :
              IF file.mode = AU_READ
              THEN /\ BoundTo(file.au_read[t], "read", t)
                   /\ file.au_write[t] = NoRoutine
              ELSE /\ BoundTo(file.au_write[t], "write", t)
                   /\ file.au_read[t] = NoRoutine

\* a write handle on an unsigned big-endian 16-bit stream: its float slot
\* holds pcm_write_f32_as_u16be
C21_Witness ==
    /\ last.called
    /\ last.ptr = 1
    /\ last.mode = AU_WRITE
    /\ TripleOf(info.encoding) = <<AU_ENCODING_UNSIGNED, AU_ORDER_BE, 16>>
    /\ file.au_write["f32"] = [dir |-> "write", disk |-> "u16be", mem |-> "f32"]
    /\ file.au_read["f32"] = NoRoutine

----------------------------------------------------------------------------
\* Properties of the handle during typed calls, checked on IoSpec.

\* a step of a typed entry point: its call, one read(2) or write(2) of its
\* routine, or the exit on an I/O error
TypedCallStep ==
    \/ pc # "idle"
    \/ pc' # "idle"
    \/ hist'.calls # hist.calls

\* C22: the routines are bound once, inside au_open: no step of any
\* au_read_T or au_write_T call changes a slot of the handle, its mode or its
\* descriptor.
C22_CallsLeaveHandle ==
    [][TypedCallStep =>
          /\ file'.au_read = file.au_read
          /\ file'.au_write = file.au_write
          /\ file'.mode = file.mode
          /\ file'.fd = file.fd]_vars

\* two typed reads on a signed little-endian 16-bit read handle have
\* returned, the second with two samples, and the handle still holds
\* pcm_read_s16le_as_f32 in its float slot
C22_Witness ==
    /\ hist.calls = 2
    /\ pc = "idle"
    /\ call.routine = [dir |-> "read", disk |-> "s16le", mem |-> "s16"]
    /\ ret = 2
    /\ file.ptr = 1
    /\ file.mode = AU_READ
    /\ file.fd = 3
    /\ file.au_read["f32"] = [dir |-> "read", disk |-> "s16le", mem |-> "f32"]

\* C23: from au_open to au_close the format descriptor the handle holds
\* is the one its routines were bound for: every bound slot holds a routine
\* of the encoding that descriptor names, whatever the caller does with its
\* AUINFO in the meantime.
C23_DescriptorKept ==
    file.ptr = 1 =>
        \A t \in Types :
            /\ file.au_read[t] # NoRoutine =>
                  NameTriple(file.au_read[t].disk) = TripleOf(info.encoding)
            /\ file.au_write[t] # NoRoutine =>
                  NameTriple(file.au_write[t].disk) = TripleOf(info.encoding)

\* C24: every read(2) or write(2) issued by a typed entry point asks for at
\* most BUFSIZE samples' worth of bytes, BUFSIZE times the size of one
\* on-disk sample, however many samples the caller asked for.
C24_RequestBounded ==
    call.nio > 0 => call.req <= BUFSIZE * DiskSize(call.routine.disk)

----------------------------------------------------------------------------
\* Properties of a failing au_open, checked on Spec.

\* the last au_open called open(2) with O_WRONLY|O_CREAT|O_TRUNC and open(2)
\* succeeded: the named file has been created, or truncated if it existed
CreatedOrTruncated ==
    /\ last.called
    /\ last.path # PathStdio
    /\ last.mode = AU_WRITE
    /\ last.openOk

\* C25: an au_open that returns NULL, whatever the reason, leaves open no
\* descriptor that it opened itself, and has neither created nor truncated
\* the named file.
C25_FailedOpenLeavesNothing ==
    [][(last'.called /\ last'.ptr = 0) =>
          /\ fds' = fds
          /\ ~CreatedOrTruncated']_vars

----------------------------------------------------------------------------
\* Properties of the conversion loops, checked on IoSpec.

\* C26: when a typed read of n samples returns, the number of elements it
\* has stored in the caller's array is the count it returns and is at most
\* n, also when a read(2) delivered a number of bytes that is not a multiple
\* of the sample size (one byte of a 16-bit stream).
C26_StoredIsReturned ==
    (file.ptr = 1 /\ pc = "idle" /\ call.routine.dir = "read") =>
        /\ call.stored = ret
        /\ ret <= call.n

\* C27: when au_write_T(stream, src, n) returns k, the bytes the call has
\* appended to the stream are the encoding of src[0..k-1], in order and
\* without a byte more or less, whatever write(2) calls came back short.
C27_AppendedIsPrefix ==
    (file.ptr = 1 /\ pc = "idle" /\ call.routine.dir = "write") =>
        /\ call.contig
        /\ call.bytes = ret * DiskSize(call.routine.disk)

----------------------------------------------------------------------------
\* Properties of the read routines of the two byte orders, checked on
\* CodecSpec.

\* the encoding that differs from e in byte order only
Twin(e) ==
    CASE e = "s16le" -> "s16be" [] e = "s16be" -> "s16le"
      [] e = "u16le" -> "u16be" [] e = "u16be" -> "u16le"
      [] e = "s32le" -> "s32be" [] e = "s32be" -> "s32le"
      [] e = "u32le" -> "u32be" [] e = "u32be" -> "u32le"
      [] e = "f32le" -> "f32be" [] e = "f32be" -> "f32le"
      [] OTHER -> e

\* C28: on a 16- or 32-bit encoding, au_read_T gives for a sample of the
\* stream what au_read_T gives on the encoding of the other byte order for
\* the same sample stored in that order: "read XXbe as T" and "read XXle as
\* T" are the same function of the logical sample, for every type T.
C28_SameReadInBothOrders ==
    (cv.rmem # "" /\ DiskSize(cv.enc) > 1) =>
        cv.got = pcm_read(cv.rmem, Twin(cv.enc), Reversed(cv.files[cv.enc]),
                          cv.build)

----------------------------------------------------------------------------
\* Properties of the integer conversions that change width and signedness,
\* checked on CodecSpec.

\* the same-width conversion of the integer v of signedness sign and width
\* bits to the other signedness
SignConverted(sign, v, bits) ==
    IF sign = "s" THEN FAdd(v, Pow2(bits - 1), 512)
    ELSE FAdd(v, Negate(Pow2(bits - 1)), 512)

\* the same-signedness conversion of the integer v from a width to another
WidthConverted(v, from, to) ==
    IF to >= from THEN FMul(v, Pow2(to - from), 512)
    ELSE FloorDiv(v, from - to)

\* r is the integer v of signedness sign and width from, converted to the
\* other signedness and the width to: the sign conversion and the width
\* shift composed, in either order
Composed(r, sign, v, from, to) ==
    /\ Same(r, WidthConverted(SignConverted(sign, v, from), from, to))
    /\ Same(r, SignConverted(sign, WidthConverted(v, from, to), to))

\* C29: an integer conversion that changes both the width and the
\* signedness gives what the same-width sign conversion and the
\* same-signedness width shift give one after the other, in either order, on
\* the write path (sample type to stream encoding) and on the read path
\* (stream encoding to sample type).
C29_MixedIsComposition ==
    (cv.enc \in IntEncodings /\ cv.files[cv.enc] # <<>>) =>
        LET sw == StreamWord(cv.enc, cv.files[cv.enc])
            dsign == DiskSign(cv.enc)
            dbits == 8 * DiskSize(cv.enc)
        IN
        /\ (cv.mem \in IntTypes /\ MemSign(cv.mem) # dsign
               /\ MemSize(cv.mem) # DiskSize(cv.enc)) =>
              Composed(Value(dsign, sw), MemSign(cv.mem),
                       Value(MemSign(cv.mem), cv.wave[1]),
                       8 * MemSize(cv.mem), dbits)
        /\ (cv.rmem \in IntTypes /\ MemSign(cv.rmem) # dsign
               /\ MemSize(cv.rmem) # DiskSize(cv.enc)) =>
              Composed(Value(MemSign(cv.rmem), cv.got[1]), dsign,
                       Value(dsign, sw), dbits, 8 * MemSize(cv.rmem))

\* -1 has been written with au_write_s16 on an unsigned 8-bit stream as 127
\* and read with au_read_s32 as -2^24
C29_Witness ==
    /\ cv.mem = "s16"
    /\ cv.enc = "u8"
    /\ cv.wave = <<(<<255, 255>>)>>
    /\ cv.files["u8"] = <<127>>
    /\ cv.rmem = "s32"
    /\ cv.got = <<(<<0, 0, 0, 255>>)>>

----------------------------------------------------------------------------
\* Properties of the float 0.0 on the unsigned encodings, checked on
\* CodecSpec.

\* C30: the float 0.0 written with au_write_f32 on an unsigned encoding of
\* width w, 8, 16 or 32, is stored as 2^(w-1), i.e. 0x80, 0x8000 or
\* 0x80000000: the value the signed integer 0 is stored as on that encoding
\* by the sign conversion.
C30_FloatZeroIsMidpoint ==
    (cv.mem = "f32" /\ cv.wave = <<(<<0, 0, 0, 0>>)>>
        /\ cv.enc \in {"u8", "u16le", "u16be", "u32le", "u32be"}
        /\ cv.files[cv.enc] # <<>>) =>
        Same(Unsigned(StreamWord(cv.enc, cv.files[cv.enc])),
             Pow2(8 * DiskSize(cv.enc) - 1))

====
